---- MODULE Spec2Model ----
(***************************************************************************)
(* gnav: GNOME workspace navigator (src/main.go).                          *)
(*                                                                         *)
(* The model follows one user session: a shell from which gnav processes   *)
(* are started (main loads the configuration, then one subcommand runs or  *)
(* the interactive list opens), the configuration file, and the external   *)
(* tools wmctrl, gsettings and wofi.  Text is a sequence of one-character  *)
(* strings, so that formatting and parsing are computed as the code does.  *)
(***************************************************************************)
EXTENDS Integers, Sequences, FiniteSets, TLC

\* Largest number of workspaces the window manager reports.
MaxWs == 3
\* Largest index / count the user passes to rename, create and switch.
MaxArg == 3
\* Largest number of external calls that fail within one handler.
MaxFaults == 1
\* Largest number of key presses handled by the interactive list.
MaxKeys == 3

VARIABLES
    file,       \* the configuration file workspaces.yaml
    sysCount,   \* window manager: number of workspaces (lines of wmctrl -d)
    active,     \* window manager: 0-based index of the line marked "*"
    dynamic,    \* gsettings org.gnome.mutter dynamic-workspaces
    numPref,    \* gsettings org.gnome.desktop.wm.preferences num-workspaces
    names,      \* cfg.Names of the running (or last) process
    mode,       \* "Shell", "Main", or the state of the interactive list
    items,      \* rows of the tview list
    cur,        \* current item of the tview list
    renameIdx,  \* idx captured by the rename box of startInlineRename
    msg,        \* kind of the modal shown by showModal
    out,        \* lines the process wrote to stdout (or to wofi's stdin)
    snap,       \* locals sc / activeIdx / dyn of the last view that was built
    op,         \* the last operation: name, argument, returned error, commands
    keys,       \* number of key presses the interactive list has handled
    exit        \* how the last process ended

vars == <<file, sysCount, active, dynamic, numPref, names, mode, items, cur,
          renameIdx, msg, out, snap, op, keys, exit>>

-----------------------------------------------------------------------------
(* Text *)

DigitChars == <<"0", "1", "2", "3", "4", "5", "6", "7", "8", "9">>

WhiteSpace == {" ", "\t", "\n", "\r"}

\* strconv.Itoa and the %d verb
RECURSIVE Itoa(_)
Itoa(n) ==
    IF n < 0 THEN <<"-">> \o Itoa(-n)
    ELSE IF n < 10 THEN <<DigitChars[n + 1]>>
    ELSE Itoa(n \div 10) \o <<DigitChars[(n % 10) + 1]>>

DigitVal(c) == CHOOSE d \in 0..9 : DigitChars[d + 1] = c

IsDigit(c) == \E d \in 0..9 : DigitChars[d + 1] = c

RECURSIVE DigitsVal(_, _)
DigitsVal(s, acc) ==
    IF s = <<>> THEN acc ELSE DigitsVal(Tail(s), acc * 10 + DigitVal(Head(s)))

\* strconv.Atoi: an optional sign, then one or more decimal digits
Atoi(s) ==
    LET signed == s # <<>> /\ Head(s) \in {"+", "-"}
        body == IF signed THEN Tail(s) ELSE s
    IN  IF body = <<>> \/ \E i \in 1..Len(body) : ~IsDigit(body[i])
        THEN [ok |-> FALSE, val |-> 0]
        ELSE [ok |-> TRUE,
              val |-> IF signed /\ Head(s) = "-" THEN -DigitsVal(body, 0)
                      ELSE DigitsVal(body, 0)]

RECURSIVE TrimLeft(_)
TrimLeft(s) ==
    IF s # <<>> /\ Head(s) \in WhiteSpace THEN TrimLeft(Tail(s)) ELSE s

RECURSIVE TrimRight(_)
TrimRight(s) ==
    IF s # <<>> /\ s[Len(s)] \in WhiteSpace
    THEN TrimRight(SubSeq(s, 1, Len(s) - 1)) ELSE s

\* strings.TrimSpace
TrimSpace(s) == TrimRight(TrimLeft(s))

\* Mutant of SplitColon: splits at the last colon instead of the first.
SplitLastColon(s) ==
    IF \E i \in 1..Len(s) : s[i] = ":"
    THEN LET k == CHOOSE i \in 1..Len(s) :
                      s[i] = ":" /\ \A j \in (i + 1)..Len(s) : s[j] # ":"
         IN  <<SubSeq(s, 1, k - 1), SubSeq(s, k + 1, Len(s))>>
    ELSE <<s>>

\* strings.SplitN(s, ":", 2): the parts around the first colon
SplitColon(s) ==
    IF \E i \in 1..Len(s) : s[i] = ":"
    THEN LET k == CHOOSE i \in 1..Len(s) :
                      s[i] = ":" /\ \A j \in 1..(i - 1) : s[j] # ":"
         IN  <<SubSeq(s, 1, k - 1), SubSeq(s, k + 1, Len(s))>>
    ELSE <<s>>

WorkspacePrefix == <<"W", "o", "r", "k", "s", "p", "a", "c", "e", " ">>

\* fmt.Sprintf("Workspace %d", k)
DefaultName(k) == WorkspacePrefix \o Itoa(k)

NewWorkspace == <<"N", "e", "w", " ", "W", "o", "r", "k", "s", "p", "a", "c", "e">>

SpanOpen ==
    <<"<", "s", "p", "a", "n", " ", "f", "o", "r", "e", "g", "r", "o", "u",
      "n", "d", "=", "'", "#", "f", "f", "5", "5", "5", "5", "'", ">">>

SpanClose == <<"<", "/", "s", "p", "a", "n", ">">>

\* the two Printf formats of the wofi feed, without the newline
FeedLine(i, nm, isActive) ==
    IF isActive
    THEN SpanOpen \o Itoa(i + 1) \o <<":", " ">> \o nm \o SpanClose
    ELSE Itoa(i + 1) \o <<":", " ">> \o nm

\* fmt.Printf("[%d] %s\n", i+1, n) of the list subcommand, without the newline
ListLine(i, nm) == <<"[">> \o Itoa(i + 1) \o <<"]", " ">> \o nm

Web == <<"W", "e", "b">>
Chat == <<"C", "h", "a", "t">>
ColonName == <<"a", ":", "b">>

-----------------------------------------------------------------------------
(* The configuration file *)

Absent == [kind |-> "absent", names |-> <<>>]

Malformed == [kind |-> "malformed", names |-> <<>>]

\* yaml.Marshal(cfg): the document holding the list under workspace_names
Marshal(nm) == [kind |-> "doc", names |-> nm]

\* The world an operation acts on: the file, cfg.Names, the external tools'
\* state, and the external commands issued so far by the running handler.
World ==
    [file |-> file, names |-> names, sysCount |-> sysCount, active |-> active,
     dynamic |-> dynamic, numPref |-> numPref, cmds |-> <<>>]

Log(w, name, arg) == [w EXCEPT !.cmds = Append(@, <<name, arg>>)]

saveConfig(w, ok) ==
    IF ok THEN [w |-> [w EXCEPT !.file = Marshal(w.names)], err |-> "nil"]
    ELSE [w |-> w, err |-> "io"]

loadConfig(w, saveOk) ==
    IF w.file.kind = "absent"
    THEN saveConfig([w EXCEPT !.names = <<DefaultName(1), DefaultName(2)>>], saveOk)
    ELSE IF w.file.kind = "malformed"
    THEN [w |-> w, err |-> "parse"]
    ELSE [w |-> [w EXCEPT !.names = w.file.names], err |-> "nil"]

-----------------------------------------------------------------------------
(* External tools *)

getSystemWorkspaceCount(w, ok) ==
    [w |-> Log(w, "wmctrl -d", 0),
     n |-> IF ok THEN w.sysCount ELSE 0,
     err |-> IF ok THEN "nil" ELSE "exec"]

getActiveWorkspaceIndex(w, ok) ==
    [w |-> Log(w, "wmctrl -d", 0),
     n |-> IF ok THEN w.active ELSE -1,
     err |-> IF ok THEN "nil" ELSE "not found"]

getDynamic(w, ok) ==
    [w |-> Log(w, "gsettings get dynamic-workspaces", 0),
     b |-> IF ok THEN w.dynamic ELSE FALSE,
     err |-> IF ok THEN "nil" ELSE "exec"]

\* The window manager's side of the settings: with dynamic workspaces off
\* it keeps exactly num-workspaces workspaces (the active one stays in range).
ApplyStatic(w) ==
    IF w.dynamic THEN w
    ELSE [w EXCEPT !.sysCount = w.numPref,
                   !.active = IF @ > w.numPref - 1 THEN w.numPref - 1 ELSE @]

\* Mutant of setDynamic: the value written is always "true".
setDynamicAlwaysOn(w, on, ok) ==
    LET w1 == Log(w, "gsettings set dynamic-workspaces", IF on THEN 1 ELSE 0)
    IN  IF ok THEN [w |-> ApplyStatic([w1 EXCEPT !.dynamic = TRUE]), err |-> "nil"]
        ELSE [w |-> w1, err |-> "exec"]

setDynamic(w, on, ok) ==
    LET w1 == Log(w, "gsettings set dynamic-workspaces", IF on THEN 1 ELSE 0)
    IN  IF ok THEN [w |-> ApplyStatic([w1 EXCEPT !.dynamic = on]), err |-> "nil"]
        ELSE [w |-> w1, err |-> "exec"]

\* exec.Command("gsettings", "set", ..., "num-workspaces", strconv.Itoa(num))
setNumWorkspaces(w, n, ok) ==
    LET w1 == Log(w, "gsettings set num-workspaces", n)
    IN  IF ok THEN ApplyStatic([w1 EXCEPT !.numPref = n]) ELSE w1

\* Mutant of switchWorkspace: the index check is off by one (idx < 0).
switchWorkspaceFromZero(w, idx, ok) ==
    IF idx < 0 THEN [w |-> w, err |-> "invalid workspace index"]
    ELSE [w |-> [Log(w, "wmctrl -s", idx - 1)
                    EXCEPT !.active = IF ok /\ idx - 1 < w.sysCount /\ idx >= 1
                                      THEN idx - 1 ELSE @],
          err |-> IF ok THEN "nil" ELSE "exec"]

\* Mutant of switchWorkspace: the external target is idx, not idx - 1.
switchWorkspaceOneBased(w, idx, ok) ==
    IF idx < 1 THEN [w |-> w, err |-> "invalid workspace index"]
    ELSE [w |-> [Log(w, "wmctrl -s", idx)
                    EXCEPT !.active = IF ok /\ idx < w.sysCount THEN idx ELSE @],
          err |-> IF ok THEN "nil" ELSE "exec"]

switchWorkspace(w, idx, ok) ==
    IF idx < 1 THEN [w |-> w, err |-> "invalid workspace index"]
    ELSE [w |-> [Log(w, "wmctrl -s", idx - 1)
                    EXCEPT !.active = IF ok /\ idx - 1 < w.sysCount
                                      THEN idx - 1 ELSE @],
          err |-> IF ok THEN "nil" ELSE "exec"]

-----------------------------------------------------------------------------
(* rename and create *)

\* Mutant of PadNames: every added slot is named after the target index.
RECURSIVE PadNamesByTarget(_, _)
PadNamesByTarget(nm, n) ==
    IF Len(nm) < n THEN PadNamesByTarget(Append(nm, DefaultName(n)), n)
    ELSE nm

\* for len(cfg.Names) < n { cfg.Names = append(cfg.Names, "Workspace len+1") }
RECURSIVE PadNames(_, _)
PadNames(nm, n) ==
    IF Len(nm) < n THEN PadNames(Append(nm, DefaultName(Len(nm) + 1)), n)
    ELSE nm

renameLocal(w, index, newName, saveOk) ==
    IF index < 1 THEN [w |-> w, err |-> "invalid index"]
    ELSE saveConfig(
             [w EXCEPT !.names = [PadNames(@, index) EXCEPT ![index] = newName]],
             saveOk)

\* Mutant of createWorkspaces: the list is cut to num names.
createWorkspacesCut(w, num, fl) ==
    IF num < 1 THEN [w |-> w, err |-> "workspaces must be >= 1"]
    ELSE LET c == getSystemWorkspaceCount(w, fl.cnt)
         IN  IF c.err # "nil" THEN [w |-> c.w, err |-> c.err]
             ELSE LET w1 == IF num > c.n
                            THEN setDynamic(setNumWorkspaces(c.w, num, fl.setNum),
                                            FALSE, fl.setDyn).w
                            ELSE c.w
                  IN  saveConfig([w1 EXCEPT !.names = SubSeq(PadNames(@, num), 1, num)],
                                 fl.save)

\* Mutant of createWorkspaces: the settings are written whatever the count.
createWorkspacesAlwaysWrites(w, num, fl) ==
    IF num < 1 THEN [w |-> w, err |-> "workspaces must be >= 1"]
    ELSE LET c == getSystemWorkspaceCount(w, fl.cnt)
         IN  IF c.err # "nil" THEN [w |-> c.w, err |-> c.err]
             ELSE LET w1 == setDynamic(setNumWorkspaces(c.w, num, fl.setNum),
                                       FALSE, fl.setDyn).w
                  IN  saveConfig([w1 EXCEPT !.names = PadNames(@, num)], fl.save)

createWorkspaces(w, num, fl) ==
    IF num < 1 THEN [w |-> w, err |-> "workspaces must be >= 1"]
    ELSE LET c == getSystemWorkspaceCount(w, fl.cnt)
         IN  IF c.err # "nil" THEN [w |-> c.w, err |-> c.err]
             ELSE LET w1 == IF num > c.n
                            THEN setDynamic(setNumWorkspaces(c.w, num, fl.setNum),
                                            FALSE, fl.setDyn).w
                            ELSE c.w
                  IN  saveConfig([w1 EXCEPT !.names = PadNames(@, num)], fl.save)

-----------------------------------------------------------------------------
(* Views *)

\* Mutant of Label: the synthesized name is numbered i instead of i+1.
LabelNumberedFromZero(nm, i, sc, dyn) ==
    IF dyn /\ i = sc - 1 THEN NewWorkspace
    ELSE IF i < Len(nm) THEN nm[i + 1]
    ELSE DefaultName(i)

\* the label of row i (0-based) in the wofi feeds and in the interactive list
Label(nm, i, sc, dyn) ==
    IF dyn /\ i = sc - 1 THEN NewWorkspace
    ELSE IF i < Len(nm) THEN nm[i + 1]
    ELSE DefaultName(i + 1)

\* the label of row i (0-based) printed by the list subcommand
ListLabel(nm, i) ==
    IF i < Len(nm) THEN nm[i + 1] ELSE DefaultName(i + 1)

\* the loop that fills buf (wofi-run) or prints to stdout (wofi)
FeedLines(nm, sc, aIdx, dyn) ==
    [k \in 1..sc |-> FeedLine(k - 1, Label(nm, k - 1, sc, dyn), k - 1 = aIdx)]

\* the two loops that fill the tview list: entry "(i+1) label", and "  *"
\* appended to the entry of the active row
ListRows(nm, sc, aIdx, dyn) ==
    [k \in 1..sc |-> [num |-> k, label |-> Label(nm, k - 1, sc, dyn),
                      active |-> (k - 1 = aIdx)]]

NoSnap == [sc |-> 0, aIdx |-> -1, dyn |-> FALSE]

\* the common head of wofiIntegration and wofiRun
BuildFeed(w, rf) ==
    LET l == loadConfig(w, rf.save)
        d == getDynamic(l.w, rf.dyn)
        c == getSystemWorkspaceCount(d.w, rf.cnt)
        a == getActiveWorkspaceIndex(c.w, rf.act)
    IN  IF l.err # "nil" THEN [w |-> l.w, err |-> l.err, lines |-> <<>>, snap |-> NoSnap]
        ELSE IF c.err # "nil"
        THEN [w |-> c.w, err |-> c.err, lines |-> <<>>, snap |-> NoSnap]
        ELSE [w |-> a.w, err |-> "nil",
              lines |-> FeedLines(a.w.names, c.n, a.n, d.b),
              snap |-> [sc |-> c.n, aIdx |-> a.n, dyn |-> d.b]]

\* the parsing shared by parseWofiSelection and wofiRun
ParseSelection(text) ==
    LET line == TrimSpace(text)
        parts == SplitColon(line)
        idx == Atoi(TrimSpace(parts[1]))
    IN  IF line = <<>> THEN [err |-> "empty input", idx |-> 0]
        ELSE IF Len(parts) < 2 THEN [err |-> "invalid format", idx |-> 0]
        ELSE IF ~idx.ok THEN [err |-> "atoi", idx |-> 0]
        ELSE [err |-> "nil", idx |-> idx.val]

\* tview List.SetCurrentItem on a list of n items: a negative index counts
\* from the end, and the result is clamped into the list
SetCurrentItem(n, index) ==
    LET i1 == IF index < 0 THEN n + index ELSE index
        i2 == IF i1 >= n THEN n - 1 ELSE i1
    IN  IF i2 < 0 THEN 0 ELSE i2

\* The outcomes of the external calls of one handler: TRUE where the call
\* succeeds; at most MaxFaults of them fail.
AtMostFaults(S) == {fl \in S : Cardinality({k \in DOMAIN fl : ~fl[k]}) <= MaxFaults}

ReloadFlags ==
    AtMostFaults([save : BOOLEAN, cnt : BOOLEAN, act : BOOLEAN, dyn : BOOLEAN])

\* the closure reload of runTUI
reload(w, rf) ==
    LET l == loadConfig(w, rf.save)
        s == getSystemWorkspaceCount(l.w, rf.cnt)
        a == getActiveWorkspaceIndex(s.w, rf.act)
        d == getDynamic(a.w, rf.dyn)
        rows == ListRows(d.w.names, s.n, a.n, d.b)
    IN  [w |-> d.w, items |-> rows, cur |-> SetCurrentItem(Len(rows), a.n),
         snap |-> [sc |-> s.n, aIdx |-> a.n, dyn |-> d.b]]

-----------------------------------------------------------------------------
(* Inputs *)

\* names typed by the user
RenameTexts == {ColonName}

\* the <index> / <num> argument of rename, create and switch
ArgTexts == {Itoa(n) : n \in -1..MaxArg} \cup {<<"x">>}

\* the text of the Count field of the create dialog
CountTexts == {Itoa(n) : n \in 0..MaxArg} \cup {<<>>, <<"x">>, <<"-", "1">>}

\* lines given to wofi-switch on standard input
SelLines ==
    { <<"3", ":", " ", "E", "d", "i", "t", "o", "r">>,
      <<"n", "o", " ", "c", "o", "l", "o", "n">>,
      <<" ", " ", "2", " ", ":", " ", " ", "B", "u", "i", "l", "d", " ">>,
      <<"1", ":", " ", "a", ":", "b">>,
      <<"x", ":", " ", "y">>,
      <<"0", ":", " ", "z">>,
      <<":", "1">>,
      <<" ", " ">>,
      <<>>,
      FeedLine(1, Web, TRUE) }

-----------------------------------------------------------------------------
(* State *)

Commit(w) ==
    /\ file' = w.file
    /\ names' = w.names
    /\ sysCount' = w.sysCount
    /\ active' = w.active
    /\ dynamic' = w.dynamic
    /\ numPref' = w.numPref

\* the record of an operation: its integer argument, its text argument
\* (<<>> when it has none), the error it returned, the commands it issued
OpText(name, arg, text, err, cmds) ==
    [name |-> name, arg |-> arg, text |-> text, err |-> err, cmds |-> cmds]

Op(name, arg, err, cmds) == OpText(name, arg, <<>>, err, cmds)

ExitOf(err) == IF err = "nil" THEN "ok" ELSE "error"

NoList == items' = <<>> /\ cur' = 0 /\ renameIdx' = 0 /\ msg' = "none"

Init ==
    /\ file \in {Absent, Malformed, Marshal(<<Web, Chat>>)}
    /\ sysCount \in 1..MaxWs
    /\ active \in 0..(sysCount - 1)
    /\ dynamic \in BOOLEAN
    /\ numPref = sysCount
    /\ names = <<>>
    /\ mode = "Shell"
    /\ items = <<>>
    /\ cur = 0
    /\ renameIdx = 0
    /\ msg = "none"
    /\ out = <<>>
    /\ snap = NoSnap
    /\ op = Op("none", 0, "nil", <<>>)
    /\ keys = 0
    /\ exit = "none"

-----------------------------------------------------------------------------
(* main and the subcommands *)

\* main: a new process, cfg = &Config{}, then _ = loadConfig().  Processes
\* are followed up to the first interactive session that handled a key.
Start ==
    /\ mode = "Shell"
    /\ keys = 0
    /\ \E saveOk \in BOOLEAN :
         LET l == loadConfig([World EXCEPT !.names = <<>>], saveOk)
         IN  /\ Commit(l.w)
             /\ op' = Op("main", 0, l.err, l.w.cmds)
    /\ mode' = "Main"
    /\ exit' = "running"
    /\ UNCHANGED keys
    /\ out' = <<>>
    /\ snap' = NoSnap
    /\ NoList

\* a subcommand returned err: root.Execute, then exit
FinishText(name, arg, text, r) ==
    /\ Commit(r.w)
    /\ op' = OpText(name, arg, text, r.err, r.w.cmds)
    /\ mode' = "Shell"
    /\ exit' = ExitOf(r.err)
    /\ NoList
    /\ UNCHANGED keys

Finish(name, arg, r) == FinishText(name, arg, <<>>, r)

CmdList ==
    /\ mode = "Main"
    /\ \E cntOk \in BOOLEAN :
         LET c == getSystemWorkspaceCount(World, cntOk)
         IN  /\ out' = [k \in 1..c.n |-> ListLine(k - 1, ListLabel(names, k - 1))]
             /\ snap' = [sc |-> c.n, aIdx |-> -1, dyn |-> FALSE]
             /\ Finish("list", 0, [w |-> c.w, err |-> "nil"])

CmdRename ==
    /\ mode = "Main"
    /\ \E a \in ArgTexts, nm \in RenameTexts, saveOk \in BOOLEAN :
         LET i == Atoi(a)
         IN  IF ~i.ok THEN Finish("rename", 0, [w |-> World, err |-> "atoi"])
             ELSE FinishText("rename", i.val, nm, renameLocal(World, i.val, nm, saveOk))
    /\ UNCHANGED <<out, snap>>

CreateFlags ==
    AtMostFaults([cnt : BOOLEAN, setNum : BOOLEAN, setDyn : BOOLEAN, save : BOOLEAN])

CmdCreate ==
    /\ mode = "Main"
    /\ \E a \in ArgTexts, fl \in CreateFlags :
         LET x == Atoi(a)
         IN  IF ~x.ok THEN Finish("create", 0, [w |-> World, err |-> "atoi"])
             ELSE Finish("create", x.val, createWorkspaces(World, x.val, fl))
    /\ UNCHANGED <<out, snap>>

CmdSwitch ==
    /\ mode = "Main"
    /\ \E a \in ArgTexts, swOk \in BOOLEAN :
         LET i == Atoi(a)
         IN  IF ~i.ok THEN Finish("switch", 0, [w |-> World, err |-> "atoi"])
             ELSE Finish("switch", i.val, switchWorkspace(World, i.val, swOk))
    /\ UNCHANGED <<out, snap>>

CmdDynamic ==
    /\ mode = "Main"
    /\ \E a \in {"on", "off", "other"}, ok \in BOOLEAN :
         IF a = "other" THEN Finish("dynamic", 0, [w |-> World, err |-> "usage"])
         ELSE Finish("dynamic", IF a = "on" THEN 1 ELSE 0,
                     setDynamic(World, a = "on", ok))
    /\ UNCHANGED <<out, snap>>

CmdWofi ==
    /\ mode = "Main"
    /\ \E rf \in ReloadFlags :
         LET f == BuildFeed(World, rf)
         IN  /\ out' = f.lines
             /\ snap' = f.snap
             /\ Finish("wofi", 0, [w |-> f.w, err |-> f.err])

\* parseWofiSelection: the first line of stdin, or no line at all
CmdWofiSwitch ==
    /\ mode = "Main"
    /\ \/ Finish("wofi-switch", 0, [w |-> World, err |-> "no input"])
       \/ \E line \in SelLines, swOk \in BOOLEAN :
            LET p == ParseSelection(line)
            IN  IF p.err # "nil"
                THEN FinishText("wofi-switch", 0, line, [w |-> World, err |-> p.err])
                ELSE FinishText("wofi-switch", p.idx, line,
                                switchWorkspace(World, p.idx, swOk))
    /\ out' = <<>>
    /\ UNCHANGED snap

\* what wofi can write to its stdout, given the lines on its stdin: the line
\* of the picked row, nothing, or a text the user typed; each with a newline
WofiOutputs(lines) ==
    {[row |-> r, text |-> lines[r] \o <<"\n">>] : r \in 1..Len(lines)}
        \cup {[row |-> 0, text |-> <<"\n">>], [row |-> 0, text |-> <<"z", "\n">>]}

\* wofiRun: wofi is cancelled (or fails), or prints one of WofiOutputs
CmdWofiRun ==
    /\ mode = "Main"
    /\ \E rf \in ReloadFlags, swOk \in BOOLEAN, wofiOk \in BOOLEAN :
         LET f == BuildFeed(World, rf)
             w1 == Log(f.w, "wofi", 0)
         IN  /\ out' = f.lines
             /\ snap' = f.snap
             /\ IF f.err # "nil"
                THEN Finish("wofi-run", 0, [w |-> f.w, err |-> f.err])
                ELSE IF ~wofiOk
                THEN Finish("wofi-run", 0, [w |-> w1, err |-> "wofi canceled"])
                ELSE \E sel \in WofiOutputs(f.lines) :
                       LET p == ParseSelection(sel.text)
                       IN  IF p.err # "nil"
                           THEN Finish("wofi-run", sel.row, [w |-> w1, err |-> p.err])
                           ELSE Finish("wofi-run", sel.row,
                                       switchWorkspace(w1, p.idx, swOk))

-----------------------------------------------------------------------------
(* The interactive list *)

\* runTUI up to app.Run: the first fill of the list from cfg.Names
RunTUI ==
    /\ mode = "Main"
    /\ \E fl \in AtMostFaults([cnt : BOOLEAN, act : BOOLEAN, dyn : BOOLEAN]) :
         LET s == getSystemWorkspaceCount(World, fl.cnt)
             a == getActiveWorkspaceIndex(s.w, fl.act)
             d == getDynamic(a.w, fl.dyn)
             rows == ListRows(names, s.n, a.n, d.b)
         IN  /\ Commit(d.w)
             /\ items' = rows
             /\ cur' = SetCurrentItem(Len(rows), a.n)
             /\ snap' = [sc |-> s.n, aIdx |-> a.n, dyn |-> d.b]
             /\ op' = Op("runTUI", 0, "nil", d.w.cmds)
    /\ mode' = "Browsing"
    /\ UNCHANGED <<renameIdx, msg, out, keys, exit>>

\* a handler that ends in Browsing (or in a modal) with the list as it is
Stay(name, arg, err, w, newMode, newCur) ==
    /\ Commit(w)
    /\ op' = Op(name, arg, err, w.cmds)
    /\ mode' = newMode
    /\ cur' = newCur
    /\ keys' = keys + 1
    /\ UNCHANGED <<items, snap, out, exit>>

\* a handler that called reload: r is what reload returned
Reloaded(name, arg, err, r, newMode, newCur) ==
    /\ Commit(r.w)
    /\ op' = Op(name, arg, err, r.w.cmds)
    /\ mode' = newMode
    /\ items' = r.items
    /\ cur' = newCur
    /\ snap' = r.snap
    /\ keys' = keys + 1
    /\ UNCHANGED <<out, exit>>

\* a run-time panic in a handler: the process dies
Panic(name, arg) ==
    /\ op' = Op(name, arg, "panic", <<>>)
    /\ mode' = "Shell"
    /\ exit' = "panic"
    /\ keys' = keys + 1
    /\ NoList
    /\ UNCHANGED <<file, names, sysCount, active, dynamic, numPref, out, snap>>

\* the list (or a box or modal over it) has the focus and handles a key
In(m) == mode = m /\ keys < MaxKeys

\* Mutant of KeyQuit: the quit keys stop the application in every mode.
KeyQuitAnyMode ==
    /\ mode \in {"Browsing", "EditingName", "CreatingCount", "ShowingHelp",
                 "ShowingMessage"}
    /\ keys < MaxKeys
    /\ op' = Op("quit", 0, "nil", <<>>)
    /\ mode' = "Shell"
    /\ exit' = "ok"
    /\ keys' = keys + 1
    /\ NoList
    /\ UNCHANGED <<file, names, sysCount, active, dynamic, numPref, out, snap>>

\* Esc, q, Q: app.Stop, app.Run returns nil
KeyQuit ==
    /\ In("Browsing")
    /\ op' = Op("quit", 0, "nil", <<>>)
    /\ mode' = "Shell"
    /\ exit' = "ok"
    /\ keys' = keys + 1
    /\ NoList
    /\ UNCHANGED <<file, names, sysCount, active, dynamic, numPref, out, snap>>

\* Up / Down: passed on to the list, which moves the selection and wraps
KeyArrow ==
    /\ In("Browsing")
    /\ \E d \in {-1, 1} :
         LET n == Len(items)
             c == cur + d
         IN  Stay("move", 0, "nil", World, "Browsing",
                  IF n = 0 THEN cur ELSE IF c < 0 THEN n - 1 ELSE IF c >= n THEN 0 ELSE c)
    /\ UNCHANGED <<renameIdx, msg>>

\* j: (current + 1) % count
KeyLowerJ ==
    /\ In("Browsing")
    /\ IF Len(items) = 0 THEN Panic("j", 0)
       ELSE /\ Stay("move", 0, "nil", World, "Browsing",
                    SetCurrentItem(Len(items), (cur + 1) % Len(items)))
            /\ UNCHANGED <<renameIdx, msg>>

\* k: (current - 1 + count) % count
KeyLowerK ==
    /\ In("Browsing")
    /\ IF Len(items) = 0 THEN Panic("k", 0)
       ELSE /\ Stay("move", 0, "nil", World, "Browsing",
                    SetCurrentItem(Len(items), (cur - 1 + Len(items)) % Len(items)))
            /\ UNCHANGED <<renameIdx, msg>>

\* G and g
KeyLastFirst ==
    /\ In("Browsing")
    /\ \/ Stay("move", 0, "nil", World, "Browsing",
               SetCurrentItem(Len(items), Len(items) - 1))
       \/ Stay("move", 0, "nil", World, "Browsing", SetCurrentItem(Len(items), 0))
    /\ UNCHANGED <<renameIdx, msg>>

\* r, R: startInlineRename(current + 1)
KeyRename ==
    /\ In("Browsing")
    /\ Stay("r", cur + 1, "nil", World, "EditingName", cur)
    /\ renameIdx' = cur + 1
    /\ UNCHANGED msg

\* Enter in the rename box
RenameEnter ==
    /\ In("EditingName")
    /\ \E newN \in RenameTexts \cup {<<>>}, rf \in ReloadFlags :
         IF newN = <<>>
         THEN Stay("rename-empty", renameIdx, "nil", World, "Browsing", cur)
         ELSE LET rn == renameLocal(World, renameIdx, newN, rf.save)
                  r == reload(rn.w, rf)
              IN  Reloaded("rename", renameIdx, rn.err, r, "Browsing", r.cur)
    /\ renameIdx' = 0
    /\ UNCHANGED msg

\* q, Q in the rename box: the box has the focus, so the key capture of the
\* list does not run and the character goes into the text
RenameQuitKey ==
    /\ In("EditingName")
    /\ Stay("q-ignored", renameIdx, "nil", World, "EditingName", cur)
    /\ UNCHANGED <<renameIdx, msg>>

\* Mutant of RenameEsc: Esc commits the text of the box like Enter does.
RenameEscCommits ==
    /\ In("EditingName")
    /\ \E rf \in ReloadFlags :
         LET rn == renameLocal(World, renameIdx, ColonName, rf.save)
             r == reload(rn.w, rf)
         IN  Reloaded("rename-cancel", renameIdx, rn.err, r, "Browsing", r.cur)
    /\ renameIdx' = 0
    /\ UNCHANGED msg

\* Esc in the rename box
RenameEsc ==
    /\ In("EditingName")
    /\ Stay("rename-cancel", renameIdx, "nil", World, "Browsing", cur)
    /\ renameIdx' = 0
    /\ UNCHANGED msg

\* n, N: createDialog
KeyNew ==
    /\ In("Browsing")
    /\ Stay("n", 0, "nil", World, "CreatingCount", cur)
    /\ UNCHANGED <<renameIdx, msg>>

\* the calls of createWorkspaces and of the reload after it; within one
\* handler the configuration file is writable or not, wmctrl -d works or not
DialogFlags ==
    AtMostFaults([save : BOOLEAN, cnt : BOOLEAN, act : BOOLEAN, dyn : BOOLEAN,
                  setNum : BOOLEAN, setDyn : BOOLEAN])

\* the OK button of the create dialog
CreateOk ==
    /\ In("CreatingCount")
    /\ \E c \in CountTexts, rf \in DialogFlags :
         LET n == Atoi(c)
             cr == createWorkspaces(World, n.val, rf)
             r == reload(cr.w, rf)
         IN  IF n.ok /\ n.val > 0
             THEN Reloaded("create", n.val, cr.err, r, "Browsing", r.cur)
             ELSE Stay("create-invalid", 0, "nil", World, "Browsing", cur)
    /\ UNCHANGED <<renameIdx, msg>>

\* q, Q, Esc in the create dialog: the form is the root; a character goes
\* into the Count field or is dropped by a button, and Esc finds no cancel
\* function
FormQuitKey ==
    /\ In("CreatingCount")
    /\ Stay("q-ignored", 0, "nil", World, "CreatingCount", cur)
    /\ UNCHANGED <<renameIdx, msg>>

\* the Cancel button of the create dialog
CreateCancel ==
    /\ In("CreatingCount")
    /\ Stay("create-cancel", 0, "nil", World, "Browsing", cur)
    /\ UNCHANGED <<renameIdx, msg>>

ToggleFlags ==
    AtMostFaults([save : BOOLEAN, cnt : BOOLEAN, act : BOOLEAN, dyn : BOOLEAN,
                  setDyn : BOOLEAN])

\* z, Z: toggleDynamic
KeyToggle ==
    /\ In("Browsing")
    /\ \E rf \in ToggleFlags :
         LET g == getDynamic(World, rf.dyn)
             st == setDynamic(g.w, ~g.b, rf.setDyn)
             r == reload(st.w, rf)
         IN  IF g.err # "nil"
             THEN /\ Stay("toggle", 0, g.err, g.w, "ShowingMessage", cur)
                  /\ msg' = "Error"
             ELSE IF st.err # "nil"
             THEN /\ Stay("toggle", 0, st.err, st.w, "ShowingMessage", cur)
                  /\ msg' = "Error setting dynamic"
             ELSE /\ Reloaded("toggle", 0, "nil", r, "ShowingMessage", r.cur)
                  /\ msg' = IF ~g.b THEN "Dynamic Workspaces = ON"
                            ELSE "Dynamic Workspaces = OFF"
    /\ UNCHANGED renameIdx

\* ?: the help modal
KeyHelp ==
    /\ In("Browsing")
    /\ Stay("help", 0, "nil", World, "ShowingHelp", cur)
    /\ msg' = "help"
    /\ UNCHANGED renameIdx

\* q, Q on a modal: the modal is the root and drops the key
ModalQuitKey ==
    /\ In("ShowingHelp") \/ In("ShowingMessage")
    /\ Stay("q-ignored", 0, "nil", World, mode, cur)
    /\ UNCHANGED <<renameIdx, msg>>

\* the button of a modal made by showModal, or Esc, which calls the same
\* done function
ModalDone ==
    /\ In("ShowingHelp") \/ In("ShowingMessage")
    /\ Stay("dismiss", 0, "nil", World, "Browsing", cur)
    /\ msg' = "none"
    /\ UNCHANGED renameIdx

Swap(nm, a, b) == [nm EXCEPT ![a] = nm[b], ![b] = nm[a]]

\* J: swap cfg.Names[i] and cfg.Names[i+1]
KeyMoveDown ==
    /\ In("Browsing")
    /\ IF cur < Len(items) - 1
       THEN IF cur + 1 >= Len(names) THEN Panic("J", cur)
            ELSE /\ \E rf \in ReloadFlags :
                      LET sv == saveConfig([World EXCEPT !.names = Swap(@, cur + 1, cur + 2)],
                                           rf.save)
                          r == reload(sv.w, rf)
                      IN  Reloaded("J", cur, sv.err, r, "Browsing",
                                   SetCurrentItem(Len(r.items), cur + 1))
                 /\ UNCHANGED <<renameIdx, msg>>
       ELSE /\ Stay("J-end", cur, "nil", World, "Browsing", cur)
            /\ UNCHANGED <<renameIdx, msg>>

\* K: swap cfg.Names[i] and cfg.Names[i-1]
KeyMoveUp ==
    /\ In("Browsing")
    /\ IF cur > 0
       THEN IF cur >= Len(names) THEN Panic("K", cur)
            ELSE /\ \E rf \in ReloadFlags :
                      LET sv == saveConfig([World EXCEPT !.names = Swap(@, cur + 1, cur)],
                                           rf.save)
                          r == reload(sv.w, rf)
                      IN  Reloaded("K", cur, sv.err, r, "Browsing",
                                   SetCurrentItem(Len(r.items), cur - 1))
                 /\ UNCHANGED <<renameIdx, msg>>
       ELSE /\ Stay("K-end", cur, "nil", World, "Browsing", cur)
            /\ UNCHANGED <<renameIdx, msg>>

\* append(cfg.Names[:i], cfg.Names[i+1:]...), i 0-based
RemoveAt(nm, i) == SubSeq(nm, 1, i) \o SubSeq(nm, i + 2, Len(nm))

\* Mutant of KeyDelete: the focus is left where reload put it.
KeyDeleteFocusActive ==
    /\ In("Browsing")
    /\ IF cur < Len(names)
       THEN \E rf \in ReloadFlags :
              LET sv == saveConfig([World EXCEPT !.names = RemoveAt(@, cur)], rf.save)
                  r == reload(sv.w, rf)
              IN  Reloaded("x", cur, sv.err, r, "Browsing", r.cur)
       ELSE Stay("x-none", cur, "nil", World, "Browsing", cur)
    /\ UNCHANGED <<renameIdx, msg>>

\* x, X: remove the stored name of the current row
KeyDelete ==
    /\ In("Browsing")
    /\ IF cur < Len(names)
       THEN \E rf \in ReloadFlags :
              LET sv == saveConfig([World EXCEPT !.names = RemoveAt(@, cur)], rf.save)
                  r == reload(sv.w, rf)
                  n == Len(r.items)
                  i1 == IF cur > n - 1 THEN n - 1 ELSE cur
                  i2 == IF i1 < 0 THEN 0 ELSE i1
              IN  Reloaded("x", cur, sv.err, r, "Browsing", SetCurrentItem(n, i2))
       ELSE Stay("x-none", cur, "nil", World, "Browsing", cur)
    /\ UNCHANGED <<renameIdx, msg>>

\* Enter on a row: the list calls the selected func with the current index
KeyEnter ==
    /\ In("Browsing")
    /\ cur < Len(items)
    /\ \E cntOk \in BOOLEAN, swOk \in BOOLEAN :
         LET c == getSystemWorkspaceCount(World, cntOk)
             sw == switchWorkspace(c.w, cur + 1, swOk)
         IN  IF cur < c.n
             THEN Stay("select", cur, sw.err, sw.w, "Browsing", cur)
             ELSE Stay("select-none", cur, "nil", c.w, "Browsing", cur)
    /\ UNCHANGED <<renameIdx, msg>>

\* the subcommands, one process each
Next ==
    \/ Start
    \/ CmdList
    \/ CmdRename
    \/ CmdCreate
    \/ CmdSwitch
    \/ CmdDynamic
    \/ CmdWofi
    \/ CmdWofiSwitch
    \/ CmdWofiRun

Spec == Init /\ [][Next]_vars

\* the interactive list, the other views of the workspaces, and switch
NextTUI ==
    \/ Start
    \/ CmdList
    \/ CmdSwitch
    \/ CmdWofi
    \/ CmdWofiRun
    \/ RunTUI
    \/ KeyQuit
    \/ KeyArrow
    \/ KeyLowerJ
    \/ KeyLowerK
    \/ KeyLastFirst
    \/ KeyRename
    \/ RenameEnter
    \/ RenameEsc
    \/ RenameQuitKey
    \/ KeyNew
    \/ CreateOk
    \/ CreateCancel
    \/ FormQuitKey
    \/ KeyToggle
    \/ KeyHelp
    \/ ModalDone
    \/ ModalQuitKey
    \/ KeyMoveDown
    \/ KeyMoveUp
    \/ KeyDelete
    \/ KeyEnter

SpecTUI == Init /\ [][NextTUI]_vars

-----------------------------------------------------------------------------
(* Properties *)

External == <<sysCount, active, dynamic, numPref>>

IssuedSwitch(target) ==
    \E c \in 1..Len(op.cmds) : op.cmds[c] = <<"wmctrl -s", target>>

NoSwitchIssued ==
    \A c \in 1..Len(op.cmds) : op.cmds[c][1] # "wmctrl -s"

\* C1 as claimed: after create(count) with count >= 1 the stored list has
\* length >= count and keeps every earlier name, whatever the tools report.
C1_CreateAlwaysPads ==
    [][(op'.name = "create" /\ op'.err # "atoi" /\ op'.arg >= 1)
         => /\ Len(names') >= op'.arg
            /\ \A k \in 1..Len(names) : k <= Len(names') /\ names'[k] = names[k]]_vars

\* C1 as amended: create(count) with count >= 1 never removes or changes an
\* existing name; when the workspace listing succeeds the stored list has
\* length >= count afterwards (also when a settings write or the file write
\* fails), and when the listing fails the list is left as it was.
C1_CreateKeepsNames ==
    [][(op'.name = "create" /\ op'.err # "atoi" /\ op'.arg >= 1)
         => /\ \A k \in 1..Len(names) : k <= Len(names') /\ names'[k] = names[k]
            /\ op'.err # "exec" => Len(names') >= op'.arg
            /\ op'.err = "exec" => names' = names]_vars

\* create(1) succeeded on a list of three names whose last one was set by rename
C1_Witness ==
    /\ op.name = "create" /\ op.arg = 1 /\ op.err = "nil"
    /\ Len(names) = 3 /\ names[3] = ColonName

\* C2: after rename(index, name) with index >= 1 the list holds name at
\* index-1, every slot k added by padding (other than the renamed one) holds
\* "Workspace k", and every other earlier entry is unchanged.
C2_RenameSetsSlot ==
    [][(op'.name = "rename" /\ op'.err # "atoi" /\ op'.arg >= 1)
         => /\ Len(names') = IF Len(names) < op'.arg THEN op'.arg ELSE Len(names)
            /\ names'[op'.arg] = op'.text
            /\ \A k \in 1..Len(names') :
                 k # op'.arg =>
                   names'[k] = IF k <= Len(names) THEN names[k]
                               ELSE WorkspacePrefix \o Itoa(k)]_vars

\* rename(3, "a:b") on an empty list (the file could not be parsed, and the
\* write failed too): slots 1 and 2 were padded
C2_Witness ==
    /\ op.name = "rename" /\ op.arg = 3 /\ op.text = ColonName
    /\ file = Malformed
    /\ names = <<WorkspacePrefix \o <<"1">>, WorkspacePrefix \o <<"2">>, ColonName>>

\* C3: rename and switch with index < 1, and create with count < 1, return
\* an error and change nothing: not the list, not the file, and no external
\* command is issued.
C3_InvalidArgumentNoEffect ==
    [][(op'.name \in {"rename", "switch", "create"} /\ op'.err # "atoi" /\ op'.arg < 1)
         => /\ op'.err \notin {"nil", "io", "exec"}
            /\ exit' = "error"
            /\ op'.cmds = <<>>
            /\ UNCHANGED <<file, names, External>>]_vars

\* switch -1 was rejected
C3_Witness ==
    /\ op.name = "switch" /\ op.arg = -1
    /\ op.err = "invalid workspace index" /\ op.cmds = <<>> /\ exit = "error"

\* C4 as claimed: every line of the feed, the highlighted one included,
\* parses back to its own 1-based index, and picking row r in wofi-run
\* switches to workspace r.
C4_FeedParsesBack ==
    /\ op.name \in {"wofi", "wofi-run"} =>
         \A k \in 1..Len(out) :
            LET p == ParseSelection(out[k] \o <<"\n">>)
            IN  p.err = "nil" /\ p.idx = k
    /\ (op.name = "wofi-run" /\ op.arg >= 1) => IssuedSwitch(op.arg - 1)

\* C5: the selection is the integer before the first colon, trimmed; a label
\* with colons does not change it; a line without colon, an empty line and a
\* token that is not an integer are rejected and no switch is issued.
C5_SelectionParsing ==
    /\ (op.name = "wofi-switch" /\ op.err # "no input") =>
         LET line == TrimSpace(op.text)
             colons == {i \in 1..Len(line) : line[i] = ":"}
             first == CHOOSE i \in colons : \A j \in colons : i <= j
             token == TrimSpace(SubSeq(line, 1, first - 1))
             ints == {n \in -9..99 : colons # {} /\ token = Itoa(n)}
         IN  IF ints = {}
             THEN /\ op.err \in {"empty input", "invalid format", "atoi"}
                  /\ op.cmds = <<>>
                  /\ exit = "error"
             ELSE /\ op.arg \in ints
                  /\ op.arg >= 1 => op.cmds = <<<<"wmctrl -s", op.arg - 1>>>>
                  /\ op.arg < 1 => op.cmds = <<>> /\ exit = "error"
    /\ (op.name = "wofi-switch" /\ op.err = "no input") => op.cmds = <<>>
    /\ (op.name = "wofi-switch"
          /\ op.text = <<"3", ":", " ", "E", "d", "i", "t", "o", "r">>) => op.arg = 3
    /\ (op.name = "wofi-switch"
          /\ op.text = <<" ", " ", "2", " ", ":", " ", " ", "B", "u", "i", "l", "d", " ">>)
         => op.arg = 2
    /\ (op.name = "wofi-switch"
          /\ op.text = <<"n", "o", " ", "c", "o", "l", "o", "n">>)
         => op.err = "invalid format"
    /\ (op.name = "wofi-run" /\ op.err \in {"empty input", "invalid format", "atoi"})
         => NoSwitchIssued

\* the line "1: a:b" was accepted as index 1 and the switch to 0 was issued
C5_Witness ==
    /\ op.name = "wofi-switch"
    /\ op.text = <<"1", ":", " ", "a", ":", "b">>
    /\ op.arg = 1 /\ op.err = "nil"
    /\ op.cmds = <<<<"wmctrl -s", 0>>>>

-----------------------------------------------------------------------------
(* Properties of the views and of the interactive list *)

ListModes == {"Browsing", "EditingName", "CreatingCount", "ShowingHelp", "ShowingMessage"}

\* the stored name of 1-based slot k, or "Workspace k"
ExpectedName(k) == IF k <= Len(names) THEN names[k] ELSE WorkspacePrefix \o Itoa(k)

PlainFeedLine(k, lbl) == Itoa(k) \o <<":", " ">> \o lbl

BracketLine(k, lbl) == <<"[">> \o Itoa(k) \o <<"]", " ">> \o lbl

\* C6: with the dynamic flag off every view shows exactly liveCount rows (the
\* count its workspace probe returned), row i numbered i+1 and labelled with
\* the stored name at i or else "Workspace i+1"; a row is marked active only
\* if i is the active index, so at most one is and none when none was found.
C6_StaticViews ==
    ~dynamic =>
      /\ op.name = "list" =>
           /\ Len(out) = snap.sc
           /\ \A k \in 1..Len(out) : out[k] = BracketLine(k, ExpectedName(k))
      /\ op.name \in {"wofi", "wofi-run"} =>
           /\ Len(out) = snap.sc
           /\ \A k \in 1..Len(out) :
                out[k] = IF k - 1 = snap.aIdx
                         THEN SpanOpen \o PlainFeedLine(k, ExpectedName(k)) \o SpanClose
                         ELSE PlainFeedLine(k, ExpectedName(k))
      /\ mode \in ListModes =>
           /\ Len(items) = snap.sc
           /\ \A k \in 1..Len(items) :
                items[k] = [num |-> k, label |-> ExpectedName(k),
                            active |-> (k - 1 = snap.aIdx)]
           /\ Cardinality({k \in 1..Len(items) : items[k].active}) <= 1
           /\ snap.aIdx = -1 => \A k \in 1..Len(items) : ~items[k].active
      /\ op.name \in {"list", "wofi", "runTUI"} =>
           /\ snap.sc \in {0, sysCount}
           /\ snap.aIdx \in {-1, active}

\* the interactive list on three workspaces with the names Web and Chat and
\* the second workspace active
C6_Witness ==
    /\ mode = "Browsing" /\ ~dynamic /\ sysCount = 3 /\ active = 1
    /\ names = <<Web, Chat>>
    /\ items = <<[num |-> 1, label |-> Web, active |-> FALSE],
                 [num |-> 2, label |-> Chat, active |-> TRUE],
                 [num |-> 3, label |-> WorkspacePrefix \o <<"3">>, active |-> FALSE]>>

\* C7 as claimed: with the dynamic flag on, in every view the last row is
\* labelled "New Workspace" and no other row's label is overridden.  For the
\* views that read the flag, a read that failed is not held against them.
C7_DynamicLastRow ==
    dynamic =>
      /\ op.name = "list" =>
           \A k \in 1..Len(out) :
              out[k] = BracketLine(k, IF k = Len(out) THEN NewWorkspace
                                      ELSE ExpectedName(k))
      /\ (op.name \in {"wofi", "wofi-run"} /\ snap.dyn) =>
           \A k \in 1..Len(out) :
              LET lbl == IF k = Len(out) THEN NewWorkspace ELSE ExpectedName(k)
              IN  out[k] \in {PlainFeedLine(k, lbl),
                              SpanOpen \o PlainFeedLine(k, lbl) \o SpanClose}
      /\ (mode \in ListModes /\ snap.dyn) =>
           \A k \in 1..Len(items) :
              items[k].label = IF k = Len(items) THEN NewWorkspace ELSE ExpectedName(k)

\* the merged rows of the snapshot the last refresh fetched
SnapshotRows ==
    [k \in 1..snap.sc |->
        [num |-> k,
         label |-> IF snap.dyn /\ k = snap.sc THEN NewWorkspace ELSE ExpectedName(k),
         active |-> (k - 1 = snap.aIdx)]]

\* C8 as claimed: after a transition of the interactive list that changed
\* the stored names or the external workspace state, the displayed rows are
\* the merged rows of a snapshot of the state after the change (a probe that
\* failed contributing its zero value: no rows, no active row, flag off).
C8_RowsFreshAfterMutation ==
    (mode \in {"Browsing", "ShowingMessage"}
       /\ op.name \in {"rename", "create", "toggle", "J", "K", "x", "select"}
       /\ (op.name = "toggle" => op.err = "nil"))
      => /\ items = SnapshotRows
         /\ snap.sc \in {0, sysCount}
         /\ snap.aIdx \in {-1, active}
         /\ snap.dyn \in {FALSE, dynamic}

\* C9 as claimed: no handler of the interactive list faults.
C9_NeverCrashes == exit # "panic"

\* C10 as claimed: an operation of the interactive list that fails leaves
\* the controller in ShowingMessage with the error, and dismissing a message
\* leads back to Browsing.
C10_ErrorsAreShown ==
    /\ (mode \in ListModes /\ op.err # "nil")
         => (mode = "ShowingMessage" /\ msg \in {"Error", "Error setting dynamic"})
    /\ op.name = "dismiss" => mode = "Browsing"

-----------------------------------------------------------------------------
(* Properties of the exit status *)

\* C11 as claimed: a subcommand that exits 0 has completed its operation,
\* and a failed load of the configuration file or a failed required tool
\* call gives a non-zero exit.
C11_ExitZeroMeansDone ==
    (mode = "Shell" /\ exit = "ok") =>
      /\ op.name = "list" => (Len(out) = sysCount /\ file.kind # "malformed")
      /\ op.name = "wofi" => (Len(out) = sysCount /\ file.kind # "malformed")
      /\ op.name = "rename" => (names[op.arg] = op.text /\ file = Marshal(names))
      /\ op.name = "create" => (Len(names) >= op.arg /\ file = Marshal(names))
      /\ op.name \in {"switch", "wofi-switch"} => IssuedSwitch(op.arg - 1)
      /\ op.name = "dynamic" => dynamic = (op.arg = 1)

-----------------------------------------------------------------------------
(* Properties of the handlers of the interactive list *)

\* C12: after a delete the focus is the focus before it (op.arg), clamped
\* into the rebuilt list: it is never negative and never past the end, it
\* is 0 on an empty list, and a focus that was on the last row is on the
\* last row of the rebuilt list.
C12_DeleteFocusClamped ==
    (op.name \in {"x", "x-none"} /\ mode = "Browsing") =>
      /\ cur >= 0
      /\ Len(items) = 0 => cur = 0
      /\ Len(items) > 0 => cur <= Len(items) - 1
      /\ op.name = "x" =>
           /\ Len(items) \in {0, sysCount}
           /\ cur = IF op.arg > Len(items) - 1
                    THEN (IF Len(items) = 0 THEN 0 ELSE Len(items) - 1)
                    ELSE op.arg
           /\ (op.arg = sysCount - 1 /\ Len(items) > 0) => cur = Len(items) - 1

\* the last of three rows was deleted while another row is the active one,
\* and the focus is on the last row of the rebuilt list
C12_Witness ==
    /\ op.name = "x" /\ mode = "Browsing"
    /\ op.arg = 2 /\ Len(items) = 3 /\ cur = 2 /\ active # 2

\* C13: the application stops on a quit key only from Browsing; from
\* EditingName, CreatingCount, ShowingHelp and ShowingMessage every step
\* leaves it running, and the only mode such a step can lead to is Browsing.
C13_QuitOnlyFromBrowsing ==
    [][/\ mode \in (ListModes \ {"Browsing"})
            => /\ mode' \in ListModes
               /\ exit' = "running"
               /\ mode' # mode => mode' = "Browsing"
       /\ op'.name = "quit" => mode = "Browsing"]_vars

\* a quit key was pressed on a message and the message is still shown
C13_Witness ==
    /\ op.name = "q-ignored"
    /\ mode = "ShowingMessage"
    /\ exit = "running"

\* C14 as claimed: when the controller is back in Browsing after a rename,
\* create, reorder or delete, and after a rename or create of the command
\* line that exited 0, the name list in memory is the list in the file.
C14_MemoryEqualsFile ==
    /\ (mode = "Browsing" /\ op.name \in {"rename", "create", "J", "K", "x"})
         => file = Marshal(names)
    /\ (mode = "Shell" /\ exit = "ok" /\ op.name \in {"rename", "create"})
         => file = Marshal(names)

\* C15 as claimed: a reorder from a row with a neighbour in the displayed
\* list completes for every stored list length: the handler does not fault,
\* the two stored names are swapped and written when both exist, and the
\* focus follows the moved row; without a neighbour nothing changes.
C15_ReorderSwaps ==
    [][/\ (mode = "Browsing" /\ op'.name = "J") =>
            /\ exit' = "running"
            /\ (cur + 2 <= Len(names) /\ op'.err = "nil") =>
                  (names' = Swap(names, cur + 1, cur + 2) /\ file' = Marshal(names'))
            /\ Len(items') = Len(items) => cur' = cur + 1
       /\ (mode = "Browsing" /\ op'.name = "K") =>
            /\ exit' = "running"
            /\ (cur + 1 <= Len(names) /\ op'.err = "nil") =>
                  (names' = Swap(names, cur + 1, cur) /\ file' = Marshal(names'))
            /\ Len(items') = Len(items) => cur' = cur - 1
       /\ (mode = "Browsing" /\ op'.name \in {"J-end", "K-end"}) =>
            UNCHANGED <<names, file, cur, items>>]_vars

\* C16: cancelling the rename box or the create dialog, confirming a rename
\* with an empty name, and confirming a create whose count is not a positive
\* integer, all lead back to Browsing and leave the stored names, the file,
\* the external settings and the displayed rows as they were.
C16_CancelChangesNothing ==
    [][op'.name \in {"rename-cancel", "create-cancel", "rename-empty", "create-invalid"}
         => /\ mode \in {"EditingName", "CreatingCount"}
            /\ mode' = "Browsing"
            /\ op'.cmds = <<>>
            /\ UNCHANGED <<names, file, sysCount, active, dynamic, numPref, items>>]_vars

\* the rename box was cancelled over the stored names Web and Chat
C16_Witness ==
    /\ op.name = "rename-cancel"
    /\ mode = "Browsing"
    /\ names = <<Web, Chat>>
    /\ file = Marshal(<<Web, Chat>>)

-----------------------------------------------------------------------------
(* Properties of create, switch, toggle and delete *)

\* C17: a create that got the live count writes the settings only when its
\* count exceeds the live count: then it sets num-workspaces to the count
\* and after that dynamic-workspaces to false, and else it writes nothing
\* and the settings stay as they are.  The names are padded in both cases,
\* and the only error create can still return is that of the file write.
C17_CreateSettingsWrites ==
    [][(op'.name = "create" /\ op'.arg >= 1 /\ op'.err # "exec") =>
          /\ IF op'.arg > sysCount
             THEN op'.cmds = << <<"wmctrl -d", 0>>,
                                <<"gsettings set num-workspaces", op'.arg>>,
                                <<"gsettings set dynamic-workspaces", 0>> >>
             ELSE /\ op'.cmds = << <<"wmctrl -d", 0>> >>
                  /\ UNCHANGED <<dynamic, numPref, sysCount, active>>
          /\ Len(names') >= op'.arg
          /\ op'.err \in {"nil", "io"}
          /\ op'.err = "nil" => (file' = Marshal(names') /\ exit' = "ok")
          /\ op'.err = "io" => file' = file]_vars

\* create reported success and padded the names although the write of the
\* dynamic flag failed: the flag is still on
C17_Witness ==
    /\ op.name = "create" /\ op.err = "nil" /\ exit = "ok"
    /\ Len(op.cmds) = 3
    /\ dynamic
    /\ Len(names) >= op.arg
    /\ file = Marshal(names)

\* C18: switch(index) with index >= 1 issues exactly one wmctrl -s with the
\* target index-1, and its error is the error of that command; activating
\* row i of the interactive list issues wmctrl -s i after reading the live
\* count, and issues no switch when i is not below the count it read.
C18_SwitchTarget ==
    /\ (op.name = "switch" /\ op.arg >= 1) =>
         /\ op.cmds = << <<"wmctrl -s", op.arg - 1>> >>
         /\ op.err \in {"nil", "exec"}
         /\ exit = ExitOf(op.err)
         /\ (op.err = "nil" /\ op.arg - 1 < sysCount) => active = op.arg - 1
    /\ op.name = "select" =>
         /\ op.cmds = << <<"wmctrl -d", 0>>, <<"wmctrl -s", op.arg>> >>
         /\ op.arg = cur
         /\ op.arg < sysCount
         /\ op.err = "nil" => active = op.arg
    /\ op.name = "select-none" => op.cmds = << <<"wmctrl -d", 0>> >>

\* the second row was activated while the first workspace was active: one
\* switch to target 1 was issued and the second workspace is active
C18_Witness ==
    /\ op.name = "select" /\ op.arg = 1 /\ op.err = "nil"
    /\ mode = "Browsing"
    /\ IssuedSwitch(1)
    /\ active = 1
    /\ snap.aIdx = 0

Without(nm, i) == [k \in 1..(Len(nm) - 1) |-> IF k <= i THEN nm[k] ELSE nm[k + 1]]

\* C20 as claimed: a delete on row i below the stored length removes exactly
\* the entry at i and persists the result; on another row it changes
\* nothing; the rows displayed afterwards are as many as the count the
\* refresh read (the live count, or none when its probe failed).
C20_DeleteRemovesEntry ==
    [][/\ (mode = "Browsing" /\ op'.name = "x") =>
            /\ cur < Len(names)
            /\ names' = Without(names, cur)
            /\ file' = Marshal(names')
            /\ Len(items') \in {0, sysCount'}
       /\ (mode = "Browsing" /\ op'.name = "x-none") =>
            /\ cur >= Len(names)
            /\ UNCHANGED <<names, file, items>>]_vars

====
